---- MODULE Spec2Model ----
(***************************************************************************)
(* Student / teacher record stores with their action logs, as implemented  *)
(* by StudentManager and TeacherManager in student_info_web.py.            *)
(*                                                                         *)
(* A Python value that may be None is an option: None is the empty tuple   *)
(* and a present value x is <<x>>.  A JSON file is modelled by the value   *)
(* json.load yields for it (or by the fact that it is missing or not       *)
(* parseable); json.dump / json.load are faithful on the strings, integers *)
(* and nulls the stores write.  A timestamp is the number of the second    *)
(* datetime.now() falls in (strftime "%Y-%m-%d %H:%M:%S" is one-to-one on  *)
(* seconds).                                                               *)
(***************************************************************************)
EXTENDS Integers, Sequences, FiniteSets, TLC

VARIABLES students, studentFile, studentLog,
          teachers, teacherFile, teacherLog,
          clock, steps, ret,
          cli, reqs

vars == <<students, studentFile, studentLog,
          teachers, teacherFile, teacherLog, clock, steps, ret, cli, reqs>>

studentVars == <<students, studentFile, studentLog>>
teacherVars == <<teachers, teacherFile, teacherLog>>

\* ---------------------------------------------------------------- bounds
\* Number of steps (calls on a store, seconds passing) a run takes.
MaxSteps == 3

\* ---------------------------------------------------------------- inputs
None == <<>>
Some(x) == <<x>>

Rolls == {"101", "102"}
AddNames == {"Alice", "Bob"}
AddAges == {10}
AddClasses == {"5A"}
Usernames == {"t1", "t2"}
Passwords == {"pw1", "pw2"}

\* argument of TeacherManager.edit_teacher
PasswordArgs == {None, Some("")} \cup {Some(p) : p \in Passwords}
\* teacher_username argument of StudentManager.add_student
AddTeacherArgs == {None, Some("t1")}

\* Python truthiness of an optional string / an optional integer
TruthyStr(o) == o # None /\ o[1] # ""
TruthyInt(o) == o # None /\ o[1] # 0

\* ---------------------------------------------------------------- records
Student(name, age, student_class, roll_number, teacher_username) ==
    [name |-> name, age |-> age, student_class |-> student_class,
     roll_number |-> roll_number, teacher_username |-> teacher_username]

Student_to_dict(s) ==
    [name |-> s.name, age |-> s.age, class |-> s.student_class,
     roll_number |-> s.roll_number, teacher_username |-> s.teacher_username]

Teacher(username, password, last_password_change, now) ==
    [username |-> username, password |-> password,
     last_password_change |->
        IF last_password_change # None THEN last_password_change[1] ELSE now]

Teacher_to_dict(t) ==
    [username |-> t.username, password |-> t.password,
     last_password_change |-> t.last_password_change]

\* from_dict that forgets the teacher (as the four-field record does)
Student_from_dict_NoTeacher(data) ==
    Student(data.name, data.age, data.class, data.roll_number, None)

\* Student.from_dict; data.get('teacher_username') is None without the key
Student_from_dict(data) ==
    Student(data.name, data.age, data.class, data.roll_number,
            IF "teacher_username" \in DOMAIN data THEN data.teacher_username ELSE None)

\* Teacher.from_dict; data.get('last_password_change') is None without the key
Teacher_from_dict(data, now) ==
    Teacher(data.username, data.password,
            IF "last_password_change" \in DOMAIN data
            THEN Some(data.last_password_change) ELSE None,
            now)

\* ---------------------------------------------------------------- files
\* A table file: missing, not parseable (an empty or cut-off file is), parseable
\* to something that is no JSON object ("nonobject"), or holding a JSON object.
MissingFile == [kind |-> "missing", data |-> <<>>]
CorruptFile == [kind |-> "corrupt", data |-> <<>>]
NonObjectFile == [kind |-> "nonobject", data |-> <<>>]

\* A log file: missing, not parseable, parseable to something that is not an
\* array ("nonlist"), or an array of entries.
MissingLog == [kind |-> "missing", entries |-> <<>>]
CorruptLog == [kind |-> "corrupt", entries |-> <<>>]
NonListLog == [kind |-> "nonlist", entries |-> <<>>]

InitLogs == {MissingLog, CorruptLog, NonListLog}

save_students(tbl) ==
    [kind |-> "ok", data |-> [roll \in DOMAIN tbl |-> Student_to_dict(tbl[roll])]]

save_teachers(tbl) ==
    [kind |-> "ok", data |-> [uname \in DOMAIN tbl |-> Teacher_to_dict(tbl[uname])]]

\* the JSON object a table file holds, if it holds one
TableOnDiskOf(file) == IF file.kind = "ok" THEN file.data ELSE <<>>

\* load_students: what raises inside its try block (json.load on an unparseable
\* file, data.items() on a value that is no object, a key from_dict misses)
StudentLoadFails(file) ==
    \/ file.kind \in {"corrupt", "nonobject"}
    \/ /\ file.kind = "ok"
       /\ \E roll \in DOMAIN file.data :
            ~({"name", "age", "class", "roll_number"} \subseteq DOMAIN file.data[roll])

TeacherLoadFails(file) ==
    \/ file.kind \in {"corrupt", "nonobject"}
    \/ /\ file.kind = "ok"
       /\ \E uname \in DOMAIN file.data :
            ~({"username", "password"} \subseteq DOMAIN file.data[uname])

\* load_students without the except clause
load_students_NoExcept(file) ==
    IF file.kind = "missing" THEN [raised |-> FALSE, table |-> <<>>]
    ELSE IF StudentLoadFails(file) THEN [raised |-> TRUE, table |-> <<>>]
    ELSE [raised |-> FALSE,
          table |-> [roll \in DOMAIN file.data |-> Student_from_dict(file.data[roll])]]

\* load_students: the table it leaves in self.students, and whether it raises
load_students(file) ==
    IF file.kind = "missing" THEN [raised |-> FALSE, table |-> <<>>]
    ELSE IF StudentLoadFails(file) THEN [raised |-> FALSE, table |-> <<>>]
    ELSE [raised |-> FALSE,
          table |-> [roll \in DOMAIN file.data |-> Student_from_dict(file.data[roll])]]

load_teachers(file, now) ==
    IF file.kind = "missing" THEN [raised |-> FALSE, table |-> <<>>]
    ELSE IF TeacherLoadFails(file) THEN [raised |-> FALSE, table |-> <<>>]
    ELSE [raised |-> FALSE,
          table |-> [uname \in DOMAIN file.data |->
                        Teacher_from_dict(file.data[uname], now)]]

\* a log file whose one entry has no student snapshot ('student': null)
NotedLog ==
    [kind |-> "list",
     entries |-> <<[timestamp |-> 0, action |-> "note", student |-> None,
                    details |-> None]>>]

\* log_action: the entry it builds
StudentLogEntry(action, student, details, now) ==
    [timestamp |-> now, action |-> action,
     student |-> IF student # None THEN Some(Student_to_dict(student[1])) ELSE None,
     details |-> details]

TeacherLogEntry(action, teacher, details, now) ==
    [timestamp |-> now, action |-> action,
     teacher |-> IF teacher # None THEN Some(Teacher_to_dict(teacher[1])) ELSE None,
     details |-> details]

\* log_action: json.load gave a value without .append, so logs.append raises
LogRaises(log) == log.kind = "nonlist"

\* append that drops what the log held
LogAppend_Overwrite(log, entry) == [kind |-> "list", entries |-> <<entry>>]

\* log_action: the log file after a successful append
LogAppend(log, entry) ==
    [kind |-> "list",
     entries |-> Append(IF log.kind = "list" THEN log.entries ELSE <<>>, entry)]

\* ---------------------------------------------------------------- result of the last call
NoArgs == [name |-> None, age |-> None, class |-> None,
           teacher_username |-> None, password |-> None,
           filter_by |-> None, filter_value |-> None]

\* store/op/key/args: the call; status: "ok" (success reported), "fail" (failure
\* reported), "raised" (an exception left the call), "invalid" (a route refused
\* the form); pre: the record under the key before the call; result: the value
\* a query returned.
Ret(store, op, status, key, args, pre, result) ==
    [store |-> store, op |-> op, status |-> status, key |-> key,
     args |-> args, pre |-> pre, result |-> result]

\* Every step counts against the length of the run.  A step of the web process
\* taken as a whole call involves neither the command-line program nor a
\* request followed statement by statement.
Step == steps < MaxSteps /\ steps' = steps + 1 /\ UNCHANGED <<cli, reqs>>

Without(tbl, k) == [x \in DOMAIN tbl \ {k} |-> tbl[x]]
With(tbl, k, v) == [x \in DOMAIN tbl \cup {k} |-> IF x = k THEN v ELSE tbl[x]]

PreStudent(roll_number) ==
    IF roll_number \in DOMAIN students
    THEN Some(Student_to_dict(students[roll_number])) ELSE None

PreTeacher(username) ==
    IF username \in DOMAIN teachers
    THEN Some(Teacher_to_dict(teachers[username])) ELSE None

\* ---------------------------------------------------------------- Student store
\* The tail every successful student mutation shares: save_students(), then
\* log_action(), then the return.
StudentCommit(tbl, op, key, args, action, student, details) ==
    /\ students' = tbl
    /\ studentFile' = save_students(tbl)
    /\ IF LogRaises(studentLog)
       THEN /\ UNCHANGED studentLog
            /\ ret' = Ret("student", op, "raised", key, args, PreStudent(key), None)
       ELSE /\ studentLog' = LogAppend(studentLog,
                                StudentLogEntry(action, Some(student), details, clock))
            /\ ret' = Ret("student", op, "ok", key, args, PreStudent(key), None)
    /\ UNCHANGED <<teacherVars, clock>>

StudentFail(op, key, args) ==
    /\ ret' = Ret("student", op, "fail", key, args, PreStudent(key), None)
    /\ UNCHANGED <<studentVars, teacherVars, clock>>

\* add_student without the check for an existing roll number
add_student_Overwrite(name, age, student_class, roll_number, teacher_username) ==
    LET args == [NoArgs EXCEPT !.name = Some(name), !.age = Some(age),
                               !.class = Some(student_class),
                               !.teacher_username = teacher_username]
        student == Student(name, age, student_class, roll_number, teacher_username)
    IN StudentCommit(With(students, roll_number, student),
                     "add", roll_number, args, "add", student, None)

\* add_student that files the record under the student's name
add_student_KeyByName(name, age, student_class, roll_number, teacher_username) ==
    LET args == [NoArgs EXCEPT !.name = Some(name), !.age = Some(age),
                               !.class = Some(student_class),
                               !.teacher_username = teacher_username]
        student == Student(name, age, student_class, roll_number, teacher_username)
    IN
    IF roll_number \in DOMAIN students
    THEN StudentFail("add", roll_number, args)
    ELSE StudentCommit(With(students, name, student),
                       "add", roll_number, args, "add", student, None)

add_student(name, age, student_class, roll_number, teacher_username) ==
    LET args == [NoArgs EXCEPT !.name = Some(name), !.age = Some(age),
                               !.class = Some(student_class),
                               !.teacher_username = teacher_username]
        student == Student(name, age, student_class, roll_number, teacher_username)
    IN
    IF roll_number \in DOMAIN students
    THEN StudentFail("add", roll_number, args)
    ELSE StudentCommit(With(students, roll_number, student),
                       "add", roll_number, args, "add", student, None)

\* remove_student that forgets the log entry
remove_student_NoLog(roll_number) ==
    IF roll_number \in DOMAIN students
    THEN /\ students' = Without(students, roll_number)
         /\ studentFile' = save_students(Without(students, roll_number))
         /\ ret' = Ret("student", "remove", "ok", roll_number, NoArgs,
                       PreStudent(roll_number), None)
         /\ UNCHANGED <<studentLog, teacherVars, clock>>
    ELSE StudentFail("remove", roll_number, NoArgs)

remove_student(roll_number) ==
    IF roll_number \in DOMAIN students
    THEN StudentCommit(Without(students, roll_number),
                       "remove", roll_number, NoArgs, "remove",
                       students[roll_number], None)
    ELSE StudentFail("remove", roll_number, NoArgs)

\* updates dict that takes every argument that is not None
EditUpdateKeys_NotNone(name, age, student_class, teacher_username) ==
    (IF name # None THEN {"name"} ELSE {})
    \cup (IF age # None THEN {"age"} ELSE {})
    \cup (IF student_class # None THEN {"class"} ELSE {})
    \cup (IF teacher_username # None THEN {"teacher_username"} ELSE {})

\* edit_student: the updates dict, keyed as in the code.  The value under
\* teacher_username is kept as the option the record's field holds.
EditUpdateKeys(name, age, student_class, teacher_username) ==
    (IF TruthyStr(name) THEN {"name"} ELSE {})
    \cup (IF TruthyInt(age) THEN {"age"} ELSE {})
    \cup (IF TruthyStr(student_class) THEN {"class"} ELSE {})
    \cup (IF teacher_username # None THEN {"teacher_username"} ELSE {})

EditUpdates(name, age, student_class, teacher_username) ==
    [k \in EditUpdateKeys(name, age, student_class, teacher_username) |->
        CASE k = "name" -> name[1]
          [] k = "age" -> age[1]
          [] k = "class" -> student_class[1]
          [] k = "teacher_username" -> teacher_username]

\* edit_student: the setattr loop over the updates
ApplyUpdates(student, updates) ==
    [name |-> IF "name" \in DOMAIN updates THEN updates["name"] ELSE student.name,
     age |-> IF "age" \in DOMAIN updates THEN updates["age"] ELSE student.age,
     student_class |-> IF "class" \in DOMAIN updates THEN updates["class"]
                       ELSE student.student_class,
     roll_number |-> student.roll_number,
     teacher_username |-> IF "teacher_username" \in DOMAIN updates
                          THEN updates["teacher_username"]
                          ELSE student.teacher_username]

\* edit_student that logs the record as it was before the updates
edit_student_LogsOld(roll_number, name, age, student_class, teacher_username) ==
    LET args == [NoArgs EXCEPT !.name = name, !.age = age, !.class = student_class,
                               !.teacher_username = teacher_username]
        updates == EditUpdates(name, age, student_class, teacher_username)
    IN
    IF roll_number \notin DOMAIN students
    THEN StudentFail("edit", roll_number, args)
    ELSE LET student == ApplyUpdates(students[roll_number], updates)
         IN StudentCommit(With(students, roll_number, student),
                          "edit", roll_number, args, "edit",
                          students[roll_number], Some(updates))

edit_student(roll_number, name, age, student_class, teacher_username) ==
    LET args == [NoArgs EXCEPT !.name = name, !.age = age, !.class = student_class,
                               !.teacher_username = teacher_username]
        updates == EditUpdates(name, age, student_class, teacher_username)
    IN
    IF roll_number \notin DOMAIN students
    THEN StudentFail("edit", roll_number, args)
    ELSE LET student == ApplyUpdates(students[roll_number], updates)
         IN StudentCommit(With(students, roll_number, student),
                          "edit", roll_number, args, "edit", student, Some(updates))

get_student(roll_number) ==
    IF roll_number \in DOMAIN students THEN Some(students[roll_number]) ELSE None

\* Python's order of the strings used as keys, least first
StrOrder == <<"101", "102", "Alice", "Bob", "t1", "t2">>
Rank(str) == CHOOSE i \in 1..Len(StrOrder) : StrOrder[i] = str

\* sorted(records, key=keyOf): least key first, equal keys in table order
RECURSIVE SortedBy(_, _, _)
SortedBy(keys, tbl, field) ==
    IF keys = {} THEN <<>>
    ELSE LET first == CHOOSE k \in keys : \A j \in keys :
                        \/ Rank(tbl[k][field]) < Rank(tbl[j][field])
                        \/ /\ tbl[k][field] = tbl[j][field]
                           /\ Rank(k) <= Rank(j)
         IN <<tbl[first]>> \o SortedBy(keys \ {first}, tbl, field)

\* get_all_students that ignores its argument
get_all_students_NoFilter(teacher_username) ==
    SortedBy(DOMAIN students, students, "roll_number")

get_all_students(teacher_username) ==
    SortedBy({k \in DOMAIN students :
                TruthyStr(teacher_username)
                    => students[k].teacher_username = teacher_username},
             students, "roll_number")

\* str.lower on the names and filter values in use
Lower(str) ==
    CASE str \in {"Alice", "ALICE", "alice"} -> "alice"
      [] str \in {"Bob", "bob"} -> "bob"
      [] OTHER -> str

\* view_logs comparing the names as they are
view_logs_CaseSensitive(log, filter_by, filter_value) ==
    IF TruthyStr(filter_by) /\ TruthyStr(filter_value)
    THEN IF filter_by[1] = "name"
         THEN SelectSeq(log.entries,
                LAMBDA e : e.student # None /\ e.student[1].name = filter_value[1])
         ELSE IF filter_by[1] = "roll_number"
         THEN SelectSeq(log.entries,
                LAMBDA e : e.student # None
                           /\ e.student[1].roll_number = filter_value[1])
         ELSE log.entries
    ELSE log.entries

\* view_logs on a log file that holds an array
view_logs(log, filter_by, filter_value) ==
    IF TruthyStr(filter_by) /\ TruthyStr(filter_value)
    THEN IF filter_by[1] = "name"
         THEN SelectSeq(log.entries,
                LAMBDA e : e.student # None
                           /\ Lower(e.student[1].name) = Lower(filter_value[1]))
         ELSE IF filter_by[1] = "roll_number"
         THEN SelectSeq(log.entries,
                LAMBDA e : e.student # None
                           /\ e.student[1].roll_number = filter_value[1])
         ELSE log.entries
    ELSE log.entries

FilterBys == {None, Some("name"), Some("roll_number")}
FilterValues == {None, Some("ALICE"), Some("101")}

\* ---------------------------------------------------------------- edit route
\* The form fields the edit page posts, and what the route makes of them.
FormNames == {"", "Bob"}
FormAges == {"", "x", "0", "12"}
FormClasses == {"", "5B"}
FormTeachers == {"", "t1"}
Forms == [name : FormNames, age : FormAges, class : FormClasses,
          teacher_username : FormTeachers]

\* str.isdigit and int on the posted age
IsDigit(a) == a \in {"0", "12"}
ParseInt(a) == CASE a = "0" -> 0 [] a = "12" -> 12

\* edit_student (route): the form passes validation
FormValid(f) == f.name # "" /\ IsDigit(f.age) /\ f.class # ""

\* edit_student (route): the arguments it hands to StudentManager.edit_student
RouteEditArgs(f) ==
    [name |-> Some(f.name), age |-> Some(ParseInt(f.age)), class |-> Some(f.class),
     teacher_username |-> IF f.teacher_username # "" THEN Some(f.teacher_username)
                          ELSE None]

\* Calls of edit_student with one keyword argument, or none
SingleEditArgs ==
    LET none == [name |-> None, age |-> None, class |-> None, teacher_username |-> None]
    IN {none}
       \cup {[none EXCEPT !.name = Some(v)] : v \in {"", "Bob"}}
       \cup {[none EXCEPT !.age = Some(v)] : v \in {0, 12}}
       \cup {[none EXCEPT !.class = Some(v)] : v \in {"", "5B"}}
       \cup {[none EXCEPT !.teacher_username = Some(v)] : v \in {"", "t1"}}

EditArgs == SingleEditArgs \cup {RouteEditArgs(f) : f \in {g \in Forms : FormValid(g)}}

AddStudent ==
    /\ Step
    /\ \E name \in AddNames, age \in AddAges, c \in AddClasses,
          roll \in Rolls, tu \in AddTeacherArgs :
            add_student(name, age, c, roll, tu)

RemoveStudent ==
    /\ Step
    /\ \E roll \in Rolls : remove_student(roll)

EditStudent ==
    /\ Step
    /\ \E roll \in Rolls, a \in EditArgs :
            edit_student(roll, a.name, a.age, a.class, a.teacher_username)

\* the edit route refuses the form: nothing reaches the store
RouteEditInvalid ==
    /\ Step
    /\ \E roll \in DOMAIN students, f \in Forms :
        /\ ~FormValid(f)
        /\ ret' = Ret("student", "route_edit", "invalid", roll, NoArgs,
                      PreStudent(roll), None)
        /\ UNCHANGED <<studentVars, teacherVars, clock>>

GetStudent ==
    /\ Step
    /\ \E roll \in Rolls :
        /\ ret' = Ret("student", "get", "ok", roll, NoArgs, PreStudent(roll),
                      get_student(roll))
        /\ UNCHANGED <<studentVars, teacherVars, clock>>

\* index route: the listing, all students or those of the selected teacher
ListTeacherArgs == {None, Some(""), Some("t1")}

ListStudents ==
    /\ Step
    /\ \E tu \in ListTeacherArgs :
        /\ ret' = Ret("student", "list", "ok", "",
                      [NoArgs EXCEPT !.teacher_username = tu], None,
                      Some(get_all_students(tu)))
        /\ UNCHANGED <<studentVars, teacherVars, clock>>

\* StudentManager.view_logs.  A missing or unparseable file gives []; a file that
\* holds no array is returned as it is without a filter, and with a filter the
\* comprehension over it either raises or, when the value is empty, gives [].
ViewLogs ==
    /\ Step
    /\ \E fb \in FilterBys, fv \in FilterValues :
        LET args == [NoArgs EXCEPT !.filter_by = fb, !.filter_value = fv]
            filtering == TruthyStr(fb) /\ TruthyStr(fv)
        IN /\ \/ /\ studentLog.kind = "list"
                 /\ ret' = Ret("student", "view_logs", "ok", "", args, None,
                               Some(view_logs(studentLog, fb, fv)))
              \/ /\ studentLog.kind \in {"missing", "corrupt"}
                 /\ ret' = Ret("student", "view_logs", "ok", "", args, None, Some(<<>>))
              \/ /\ studentLog.kind = "nonlist"
                 /\ \/ ret' = Ret("student", "view_logs", "ok", "", args, None, Some(<<>>))
                    \/ /\ filtering
                       /\ ret' = Ret("student", "view_logs", "raised", "", args, None, None)
           /\ UNCHANGED <<studentVars, teacherVars, clock>>

\* ---------------------------------------------------------------- Teacher store
TeacherCommit(tbl, op, key, args, logged, action, teacher, details) ==
    /\ teachers' = tbl
    /\ teacherFile' = save_teachers(tbl)
    /\ IF logged /\ LogRaises(teacherLog)
       THEN /\ UNCHANGED teacherLog
            /\ ret' = Ret("teacher", op, "raised", key, args, PreTeacher(key), None)
       ELSE /\ teacherLog' = IF logged
                             THEN LogAppend(teacherLog,
                                    TeacherLogEntry(action, Some(teacher), details, clock))
                             ELSE teacherLog
            /\ ret' = Ret("teacher", op, "ok", key, args, PreTeacher(key), None)
    /\ UNCHANGED <<studentVars, clock>>

TeacherFail(op, key, args) ==
    /\ ret' = Ret("teacher", op, "fail", key, args, PreTeacher(key), None)
    /\ UNCHANGED <<studentVars, teacherVars, clock>>

add_teacher(username, password) ==
    LET args == [NoArgs EXCEPT !.password = Some(password)]
        teacher == Teacher(username, password, None, clock)
    IN
    IF username \in DOMAIN teachers
    THEN TeacherFail("add", username, args)
    ELSE TeacherCommit(With(teachers, username, teacher),
                       "add", username, args, TRUE, "add", teacher, None)

\* remove_teacher that also clears the username in the students pointing at it
remove_teacher_Cascade(username) ==
    IF username \in DOMAIN teachers
    THEN LET cleared == [k \in DOMAIN students |->
                            IF students[k].teacher_username = Some(username)
                            THEN [students[k] EXCEPT !.teacher_username = None]
                            ELSE students[k]]
         IN /\ teachers' = Without(teachers, username)
            /\ teacherFile' = save_teachers(Without(teachers, username))
            /\ teacherLog' = LogAppend(teacherLog,
                                TeacherLogEntry("remove", Some(teachers[username]),
                                                None, clock))
            /\ students' = cleared
            /\ studentFile' = save_students(cleared)
            /\ ret' = Ret("teacher", "remove", "ok", username, NoArgs,
                          PreTeacher(username), None)
            /\ UNCHANGED <<studentLog, clock>>
    ELSE TeacherFail("remove", username, NoArgs)

\* remove_teacher that does not rewrite the table file
remove_teacher_NoSave(username) ==
    IF username \in DOMAIN teachers
    THEN /\ teachers' = Without(teachers, username)
         /\ teacherLog' = LogAppend(teacherLog,
                            TeacherLogEntry("remove", Some(teachers[username]), None, clock))
         /\ ret' = Ret("teacher", "remove", "ok", username, NoArgs,
                       PreTeacher(username), None)
         /\ UNCHANGED <<teacherFile, studentVars, clock>>
    ELSE TeacherFail("remove", username, NoArgs)

remove_teacher(username) ==
    IF username \in DOMAIN teachers
    THEN TeacherCommit(Without(teachers, username),
                       "remove", username, NoArgs, TRUE, "remove",
                       teachers[username], None)
    ELSE TeacherFail("remove", username, NoArgs)

\* password test without the comparison with the stored password
PasswordChanges_Always(teacher, new_password) == TruthyStr(new_password)

\* edit_teacher: the password is replaced
PasswordChanges(teacher, new_password) ==
    TruthyStr(new_password) /\ new_password[1] # teacher.password

edit_teacher(username, new_password) ==
    LET args == [NoArgs EXCEPT !.password = new_password]
    IN
    IF username \notin DOMAIN teachers
    THEN TeacherFail("edit", username, args)
    ELSE LET old == teachers[username]
             changes == PasswordChanges(old, new_password)
             teacher == IF changes
                        THEN [old EXCEPT !.password = new_password[1],
                                         !.last_password_change = clock]
                        ELSE old
             updates == IF changes
                        THEN [password |-> new_password[1],
                              last_password_change |-> clock]
                        ELSE <<>>
         IN TeacherCommit(With(teachers, username, teacher),
                          "edit", username, args, changes,
                          "edit_password", teacher, Some(updates))

get_all_teachers ==
    SortedBy(DOMAIN teachers, teachers, "username")

get_teacher(username) ==
    IF username \in DOMAIN teachers THEN Some(teachers[username]) ELSE None

AddTeacher ==
    /\ Step
    /\ \E u \in Usernames, p \in Passwords : add_teacher(u, p)

RemoveTeacher ==
    /\ Step
    /\ \E u \in Usernames : remove_teacher(u)

EditTeacher ==
    /\ Step
    /\ \E u \in Usernames, p \in PasswordArgs : edit_teacher(u, p)

GetTeacher ==
    /\ Step
    /\ \E u \in Usernames :
        /\ ret' = Ret("teacher", "get", "ok", u, NoArgs, PreTeacher(u), get_teacher(u))
        /\ UNCHANGED <<studentVars, teacherVars, clock>>

ListTeachers ==
    /\ Step
    /\ ret' = Ret("teacher", "list", "ok", "", NoArgs, None, Some(get_all_teachers))
    /\ UNCHANGED <<studentVars, teacherVars, clock>>

\* TeacherManager.view_logs
ViewTeacherLogs ==
    /\ Step
    /\ ret' = Ret("teacher", "view_logs", "ok", "", NoArgs, None,
                  Some(teacherLog.entries))
    /\ UNCHANGED <<studentVars, teacherVars, clock>>

\* ---------------------------------------------------------------- restart
\* save_students(), then a fresh StudentManager on the same file
ReopenStudents ==
    /\ Step
    /\ LET file == save_students(students)
           loaded == load_students(file)
       IN /\ studentFile' = file
          /\ students' = loaded.table
          /\ ret' = Ret("student", "reopen", IF loaded.raised THEN "raised" ELSE "ok",
                        "", NoArgs, None, Some(students))
    /\ UNCHANGED <<studentLog, teacherVars, clock>>

\* save_teachers(), then a fresh TeacherManager on the same file
ReopenTeachers ==
    /\ Step
    /\ LET file == save_teachers(teachers)
           loaded == load_teachers(file, clock)
       IN /\ teacherFile' = file
          /\ teachers' = loaded.table
          /\ ret' = Ret("teacher", "reopen", IF loaded.raised THEN "raised" ELSE "ok",
                        "", NoArgs, None, Some(teachers))
    /\ UNCHANGED <<teacherLog, studentVars, clock>>

\* ---------------------------------------------------------------- time
\* a second passes
Tick ==
    /\ Step
    /\ clock' = clock + 1
    /\ UNCHANGED <<studentVars, teacherVars, ret>>

\* ---------------------------------------------------------------- bounds of the other processes
\* Number of requests followed statement by statement.
MaxRequests == 2
Requests == 1..MaxRequests

\* the command-line program is not running
CliOff == [running |-> FALSE, students |-> <<>>]
\* a request that has not come in
NewRequest ==
    [pc |-> "new", op |-> "", key |-> "", name |-> "", student |-> None, data |-> <<>>,
     old |-> MissingFile, logs |-> <<>>, entry |-> None, status |-> ""]

InitOthers ==
    /\ cli = CliOff
    /\ reqs = [r \in Requests |-> NewRequest]

\* The stores are constructed with no table file on disk; at most one of the two
\* log files is already there, unparseable or holding something that is no array.
Init ==
    /\ students = <<>>
    /\ studentFile = MissingFile
    /\ teachers = <<>>
    /\ teacherFile = MissingFile
    /\ \/ studentLog \in InitLogs \cup {NotedLog} /\ teacherLog = MissingLog
       \/ studentLog = MissingLog /\ teacherLog \in InitLogs
    /\ clock = 0
    /\ steps = 0
    /\ ret = Ret("none", "init", "ok", "", NoArgs, None, None)
    /\ InitOthers

Next ==
    \/ AddStudent
    \/ RemoveStudent
    \/ EditStudent
    \/ RouteEditInvalid
    \/ GetStudent
    \/ ViewLogs
    \/ AddTeacher
    \/ RemoveTeacher
    \/ EditTeacher
    \/ GetTeacher
    \/ ViewTeacherLogs
    \/ ReopenStudents
    \/ ReopenTeachers
    \/ ListStudents
    \/ ListTeachers
    \/ Tick

Spec == Init /\ [][Next]_vars

\* ---------------------------------------------------------------- command-line program
\* The Student of the command-line program has no teacher_username.
CliStudent(name, age, student_class, roll_number) ==
    [name |-> name, age |-> age, student_class |-> student_class,
     roll_number |-> roll_number]

CliStudent_to_dict(s) ==
    [name |-> s.name, age |-> s.age, class |-> s.student_class,
     roll_number |-> s.roll_number]

CliStudent_from_dict(data) ==
    CliStudent(data.name, data.age, data.class, data.roll_number)

cli_load_students(file) ==
    IF file.kind = "missing" \/ StudentLoadFails(file) THEN <<>>
    ELSE [roll \in DOMAIN file.data |-> CliStudent_from_dict(file.data[roll])]

cli_save_students(tbl) ==
    [kind |-> "ok", data |-> [roll \in DOMAIN tbl |-> CliStudent_to_dict(tbl[roll])]]

CliLogEntry(action, student, details, now) ==
    [timestamp |-> now, action |-> action,
     student |-> IF student # None THEN Some(CliStudent_to_dict(student[1])) ELSE None,
     details |-> details]

\* a step of the command-line program
CliStep == steps < MaxSteps /\ steps' = steps + 1 /\ UNCHANGED reqs

\* main: manager = StudentManager()
CliStart ==
    /\ CliStep
    /\ ~cli.running
    /\ cli' = [running |-> TRUE, students |-> cli_load_students(studentFile)]
    /\ ret' = Ret("cli", "start", "ok", "", NoArgs, None, Some(TableOnDiskOf(studentFile)))
    /\ UNCHANGED <<studentVars, teacherVars, clock>>

\* main, choice 1: add_student.  An exception of log_action leaves main, and
\* the program ends.
CliAddStudent ==
    /\ CliStep
    /\ cli.running
    /\ \E name \in AddNames, age \in AddAges, c \in AddClasses, roll \in Rolls :
        LET args == [NoArgs EXCEPT !.name = Some(name), !.age = Some(age),
                                   !.class = Some(c)]
            student == CliStudent(name, age, c, roll)
            tbl == With(cli.students, roll, student)
        IN IF roll \in DOMAIN cli.students
           THEN /\ ret' = Ret("cli", "add", "fail", roll, args, None, None)
                /\ UNCHANGED <<cli, studentVars, teacherVars, clock>>
           ELSE /\ studentFile' = cli_save_students(tbl)
                /\ IF LogRaises(studentLog)
                   THEN /\ cli' = CliOff
                        /\ UNCHANGED studentLog
                        /\ ret' = Ret("cli", "add", "raised", roll, args, None, None)
                   ELSE /\ cli' = [cli EXCEPT !.students = tbl]
                        /\ studentLog' = LogAppend(studentLog,
                                            CliLogEntry("add", Some(student), None, clock))
                        /\ ret' = Ret("cli", "add", "ok", roll, args, None, None)
                /\ UNCHANGED <<students, teacherVars, clock>>

\* display_student: prints the record and logs a view entry, or prints that
\* the roll number was not found
display_student(roll) ==
    IF roll \in DOMAIN cli.students
    THEN /\ IF LogRaises(studentLog)
            THEN /\ cli' = CliOff
                 /\ UNCHANGED studentLog
                 /\ ret' = Ret("cli", "display", "raised", roll, NoArgs, None, None)
            ELSE /\ UNCHANGED cli
                 /\ studentLog' = LogAppend(studentLog,
                        CliLogEntry("view", Some(cli.students[roll]), None, clock))
                 /\ ret' = Ret("cli", "display", "ok", roll, NoArgs, None,
                               Some(cli.students[roll]))
         /\ UNCHANGED <<students, studentFile, teacherVars, clock>>
    ELSE /\ ret' = Ret("cli", "display", "ok", roll, NoArgs, None, None)
         /\ UNCHANGED <<cli, studentVars, teacherVars, clock>>

\* main, choice 5
CliDisplayStudent ==
    /\ CliStep
    /\ cli.running
    /\ \E roll \in Rolls : display_student(roll)

\* main, choice 9: save_students() and leave
CliExit ==
    /\ CliStep
    /\ cli.running
    /\ studentFile' = cli_save_students(cli.students)
    /\ cli' = CliOff
    /\ ret' = Ret("cli", "exit", "ok", "", NoArgs, None, Some(TableOnDiskOf(studentFile)))
    /\ UNCHANGED <<students, studentLog, teacherVars, clock>>

\* The web process and the command-line program take turns on the same files.
NextCli ==
    \/ AddStudent
    \/ CliStart
    \/ CliAddStudent
    \/ CliDisplayStudent
    \/ CliExit
    \/ GetStudent

SpecCli == Init /\ [][NextCli]_vars

\* ---------------------------------------------------------------- construction on a given file
\* Table files a store may find when it is constructed.
AliceDict == [name |-> "Alice", age |-> 10, class |-> "5A", roll_number |-> "101",
              teacher_username |-> Some("t1")]
AliceDictCli == [name |-> "Alice", age |-> 10, class |-> "5A", roll_number |-> "101"]
AliceDictShort == [name |-> "Alice", age |-> 10, class |-> "5A"]
T1Dict == [username |-> "t1", password |-> "pw1", last_password_change |-> 0]
T1DictOld == [username |-> "t1", password |-> "pw1"]
T1DictShort == [username |-> "t1"]

OkFile(key, dict) == [kind |-> "ok", data |-> With(<<>>, key, dict)]

StudentTableFiles ==
    {MissingFile, CorruptFile, NonObjectFile,
     OkFile("101", AliceDict), OkFile("101", AliceDictCli),
     OkFile("102", AliceDict), OkFile("101", AliceDictShort)}

TeacherTableFiles ==
    {MissingFile, CorruptFile, NonObjectFile,
     OkFile("t1", T1Dict), OkFile("t1", T1DictOld),
     OkFile("t2", T1Dict), OkFile("t1", T1DictShort)}

LoadStatus(loaded) == IF loaded.raised THEN "raised" ELSE "ok"

\* StudentManager(): load_students() on the file as it is
RestartStudents ==
    /\ Step
    /\ LET loaded == load_students(studentFile)
       IN /\ students' = loaded.table
          /\ ret' = Ret("student", "load", LoadStatus(loaded), "", NoArgs, None, None)
    /\ UNCHANGED <<studentFile, studentLog, teacherVars, clock>>

\* TeacherManager(): load_teachers() on the file as it is
RestartTeachers ==
    /\ Step
    /\ LET loaded == load_teachers(teacherFile, clock)
       IN /\ teachers' = loaded.table
          /\ ret' = Ret("teacher", "load", LoadStatus(loaded), "", NoArgs, None, None)
    /\ UNCHANGED <<teacherFile, teacherLog, studentVars, clock>>

\* The state after one of the two stores was constructed on a given file.
InitLoad ==
    /\ \/ /\ studentFile \in StudentTableFiles
          /\ teacherFile = MissingFile
          /\ ret = Ret("student", "load", LoadStatus(load_students(studentFile)),
                       "", NoArgs, None, None)
       \/ /\ studentFile = MissingFile
          /\ teacherFile \in TeacherTableFiles
          /\ ret = Ret("teacher", "load", LoadStatus(load_teachers(teacherFile, 0)),
                       "", NoArgs, None, None)
    /\ students = load_students(studentFile).table
    /\ teachers = load_teachers(teacherFile, 0).table
    /\ studentLog = MissingLog
    /\ teacherLog = MissingLog
    /\ clock = 0
    /\ steps = 0
    /\ InitOthers

NextLoad ==
    \/ RestartStudents
    \/ RestartTeachers
    \/ AddStudent
    \/ RemoveStudent
    \/ EditStudent
    \/ AddTeacher
    \/ RemoveTeacher
    \/ EditTeacher

SpecLoad == InitLoad /\ [][NextLoad]_vars

\* ---------------------------------------------------------------- a request, statement by statement
\* A request handled by the Flask server calls add_student or remove_student on
\* the module-level manager.  Its position is the statement it executes next:
\*   check      the test of roll_number against self.students
\*   mutate     the assignment to / del of self.students[roll_number]
\*   save_dump  save_students: building the dict of dicts
\*   save_open  save_students: open(filename, 'w'), which empties the file
\*   save_write save_students: json.dump
\*   log_read   log_action: building the entry, reading the log, logs.append
\*   log_open   log_action: open(log_filename, 'w'), which empties the file
\*   log_write  log_action: json.dump
\*   return     return True, ...
RequestOps == {"add", "remove"}
\* the requests are all about one student
RequestRolls == {"101"}

\* the statements in an order that logs before it saves
AfterPc_LogFirst(pc) ==
    CASE pc = "check" -> "mutate"
      [] pc = "mutate" -> "log_read"
      [] pc = "log_read" -> "log_open"
      [] pc = "log_open" -> "log_write"
      [] pc = "log_write" -> "save_dump"
      [] pc = "save_dump" -> "save_open"
      [] pc = "save_open" -> "save_write"
      [] pc = "save_write" -> "return"
      [] pc = "return" -> "done"

\* the statement after a statement, in the order of add_student / remove_student
AfterPc(pc) ==
    CASE pc = "check" -> "mutate"
      [] pc = "mutate" -> "save_dump"
      [] pc = "save_dump" -> "save_open"
      [] pc = "save_open" -> "save_write"
      [] pc = "save_write" -> "log_read"
      [] pc = "log_read" -> "log_open"
      [] pc = "log_open" -> "log_write"
      [] pc = "log_write" -> "return"
      [] pc = "return" -> "done"

ReqArgs(q) == IF q.op = "add"
              THEN [NoArgs EXCEPT !.name = Some(q.name), !.age = Some(10),
                                  !.class = Some("5A")]
              ELSE NoArgs

ReqUnchanged == UNCHANGED <<teacherVars, clock, steps, cli>>

\* the call leaves with a result or an exception
ReqLeave(r, status) ==
    /\ reqs' = [reqs EXCEPT ![r].pc = "done", ![r].status = status]
    /\ ret' = Ret("student", reqs[r].op, status, reqs[r].key, ReqArgs(reqs[r]),
                  None, None)

ReqGoOn(r, q) == reqs' = [reqs EXCEPT ![r] = [q EXCEPT !.pc = AfterPc(reqs[r].pc)]]

\* the name a request posts: the first one posts Alice, the others Bob
RequestName(r) == IF r = 1 THEN "Alice" ELSE "Bob"

\* the route calls manager.add_student(name, 10, '5A', roll) or
\* manager.remove_student(roll)
ReqCall(r) ==
    /\ reqs[r].pc = "new"
    /\ \E op \in RequestOps, roll \in RequestRolls :
            reqs' = [reqs EXCEPT ![r].pc = "check", ![r].op = op, ![r].key = roll,
                                 ![r].name = IF op = "add" THEN RequestName(r) ELSE ""]
    /\ UNCHANGED <<studentVars, ret>>
    /\ ReqUnchanged

ReqCheck(r) ==
    LET q == reqs[r] IN
    /\ q.pc = "check"
    /\ IF (q.key \in DOMAIN students) = (q.op = "add")
       THEN ReqLeave(r, "fail")
       ELSE /\ ReqGoOn(r, [q EXCEPT !.student =
                    Some(IF q.op = "add"
                         THEN Student(q.name, 10, "5A", q.key, None)
                         ELSE students[q.key])])
            /\ UNCHANGED ret
    /\ UNCHANGED studentVars
    /\ ReqUnchanged

\* an insertion that keeps a record already stored under the key
ReqMutate_KeepFirst(r) ==
    LET q == reqs[r] IN
    /\ q.pc = "mutate"
    /\ IF q.op = "remove" /\ q.key \notin DOMAIN students
       THEN ReqLeave(r, "raised") /\ UNCHANGED students
       ELSE /\ students' = IF q.op = "add"
                           THEN (IF q.key \in DOMAIN students THEN students
                                 ELSE With(students, q.key, q.student[1]))
                           ELSE Without(students, q.key)
            /\ ReqGoOn(r, q)
            /\ UNCHANGED ret
    /\ UNCHANGED <<studentFile, studentLog>>
    /\ ReqUnchanged

\* self.students[roll_number] = student; del self.students[roll_number], which
\* raises KeyError when another request removed the key in between
ReqMutate(r) ==
    LET q == reqs[r] IN
    /\ q.pc = "mutate"
    /\ IF q.op = "remove" /\ q.key \notin DOMAIN students
       THEN ReqLeave(r, "raised") /\ UNCHANGED students
       ELSE /\ students' = IF q.op = "add" THEN With(students, q.key, q.student[1])
                                           ELSE Without(students, q.key)
            /\ ReqGoOn(r, q)
            /\ UNCHANGED ret
    /\ UNCHANGED <<studentFile, studentLog>>
    /\ ReqUnchanged

ReqSaveDump(r) ==
    LET q == reqs[r] IN
    /\ q.pc = "save_dump"
    /\ ReqGoOn(r, [q EXCEPT !.data = save_students(students).data,
                            !.old = studentFile])
    /\ UNCHANGED <<studentVars, ret>>
    /\ ReqUnchanged

ReqSaveOpen(r) ==
    LET q == reqs[r] IN
    /\ q.pc = "save_open"
    /\ studentFile' = CorruptFile
    /\ ReqGoOn(r, q)
    /\ UNCHANGED <<students, studentLog, ret>>
    /\ ReqUnchanged

ReqSaveWrite(r) ==
    LET q == reqs[r] IN
    /\ q.pc = "save_write"
    /\ studentFile' = [kind |-> "ok", data |-> q.data]
    /\ ReqGoOn(r, q)
    /\ UNCHANGED <<students, studentLog, ret>>
    /\ ReqUnchanged

\* save_students: open() or json.dump raises OSError (no space, no permission);
\* the file is as the statements executed so far left it
ReqSaveFails(r) ==
    /\ reqs[r].pc \in {"save_open", "save_write"}
    /\ ReqLeave(r, "raised")
    /\ UNCHANGED studentVars
    /\ ReqUnchanged

ReqLogRead(r) ==
    LET q == reqs[r] IN
    /\ q.pc = "log_read"
    /\ IF LogRaises(studentLog)
       THEN ReqLeave(r, "raised")
       ELSE /\ ReqGoOn(r, [q EXCEPT
                    !.entry = Some(StudentLogEntry(q.op, q.student, None, clock)),
                    !.logs = IF studentLog.kind = "list" THEN studentLog.entries
                             ELSE <<>>])
            /\ UNCHANGED ret
    /\ UNCHANGED studentVars
    /\ ReqUnchanged

ReqLogOpen(r) ==
    LET q == reqs[r] IN
    /\ q.pc = "log_open"
    /\ studentLog' = CorruptLog
    /\ ReqGoOn(r, q)
    /\ UNCHANGED <<students, studentFile, ret>>
    /\ ReqUnchanged

\* json.dump that writes the entry after whatever the file holds by now
ReqLogWrite_Append(r) ==
    LET q == reqs[r] IN
    /\ q.pc = "log_write"
    /\ studentLog' = LogAppend(studentLog, q.entry[1])
    /\ ReqGoOn(r, q)
    /\ UNCHANGED <<students, studentFile, ret>>
    /\ ReqUnchanged

ReqLogWrite(r) ==
    LET q == reqs[r] IN
    /\ q.pc = "log_write"
    /\ studentLog' = [kind |-> "list", entries |-> Append(q.logs, q.entry[1])]
    /\ ReqGoOn(r, q)
    /\ UNCHANGED <<students, studentFile, ret>>
    /\ ReqUnchanged

ReqReturn(r) ==
    /\ reqs[r].pc = "return"
    /\ ReqLeave(r, "ok")
    /\ UNCHANGED studentVars
    /\ ReqUnchanged

InFlight(r) == reqs[r].pc \notin {"new", "done"}

\* The server starts with no table file and one of two student logs.
InitRequests ==
    /\ students = <<>>
    /\ studentFile = MissingFile
    /\ teachers = <<>>
    /\ teacherFile = MissingFile
    /\ studentLog \in {MissingLog, NonListLog}
    /\ teacherLog = MissingLog
    /\ clock = 0
    /\ steps = 0
    /\ ret = Ret("none", "init", "ok", "", NoArgs, None, None)
    /\ InitOthers

\* One request at a time, each of whose saves may fail.
NextSteps ==
    \E r \in Requests :
        \/ ReqCall(r) /\ \A o \in Requests : ~InFlight(o)
        \/ ReqCheck(r)
        \/ ReqMutate(r)
        \/ ReqSaveDump(r)
        \/ ReqSaveOpen(r)
        \/ ReqSaveWrite(r)
        \/ ReqSaveFails(r)
        \/ ReqLogRead(r)
        \/ ReqLogOpen(r)
        \/ ReqLogWrite(r)
        \/ ReqReturn(r)

SpecSteps == InitRequests /\ [][NextSteps]_vars

\* The requests in threads of the one server process, switched between any two
\* statements.
NextThreads ==
    \E r \in Requests :
        \/ ReqCall(r)
        \/ ReqCheck(r)
        \/ ReqMutate(r)
        \/ ReqSaveDump(r)
        \/ ReqSaveOpen(r)
        \/ ReqSaveWrite(r)
        \/ ReqLogRead(r)
        \/ ReqLogOpen(r)
        \/ ReqLogWrite(r)
        \/ ReqReturn(r)

SpecThreads == InitRequests /\ [][NextThreads]_vars

\* ================================================================ properties
Mutating == {"add", "remove", "edit"}
StudentFields == {"name", "age", "class", "teacher_username"}

\* a step that is a call on a store (not a second passing)
CallStep == steps' # steps /\ clock' = clock

Last(seq) == seq[Len(seq)]
IsPrefix(p, q) == Len(p) <= Len(q) /\ \A i \in 1..Len(p) : p[i] = q[i]

\* the last call was a teacher edit with no password, a blank one or the stored one
NoPasswordChange(r) ==
    /\ r.store = "teacher" /\ r.op = "edit" /\ r.pre # None
    /\ ~TruthyStr(r.args.password) \/ r.args.password[1] = r.pre[1].password

\* ---------------------------------------------------------------- C1
\* C1 as stated: every add, remove or edit that reports success leaves its
\* store's log exactly one entry longer than it found it.
C1_EverySuccessAppendsOne ==
    [][(CallStep /\ ret'.op \in Mutating /\ ret'.status = "ok")
        => IF ret'.store = "student"
           THEN Len(studentLog'.entries) = Len(studentLog.entries) + 1
           ELSE Len(teacherLog'.entries) = Len(teacherLog.entries) + 1]_vars

\* C1 amended: every add, remove or edit that reports success leaves its store's
\* log exactly one entry longer, except a teacher edit that does not change the
\* password (none given, blank, or the stored one), which reports success and
\* leaves the teacher log as it was.
C1_SuccessAppendsOneUnlessNoChange ==
    [][(CallStep /\ ret'.op \in Mutating /\ ret'.status = "ok")
        => IF ret'.store = "student"
           THEN /\ Len(studentLog'.entries) = Len(studentLog.entries) + 1
                /\ teacherLog' = teacherLog
           ELSE IF NoPasswordChange(ret')
           THEN teacherLog' = teacherLog /\ studentLog' = studentLog
           ELSE /\ Len(teacherLog'.entries) = Len(teacherLog.entries) + 1
                /\ studentLog' = studentLog]_vars

\* a student was removed with success and the log holds the entry after the add's
C1_Witness ==
    /\ ret.store = "student" /\ ret.op = "remove" /\ ret.status = "ok"
    /\ Len(studentLog.entries) = 2

\* ---------------------------------------------------------------- C2
\* C2: add with a key that is present, and remove or edit with a key that is
\* absent, report failure and leave the tables, the table files and the log
\* files as they were.
C2_FailureChangesNothing ==
    [][(CallStep /\ ret'.op \in Mutating
        /\ LET tbl == IF ret'.store = "student" THEN students ELSE teachers
           IN IF ret'.op = "add" THEN ret'.key \in DOMAIN tbl
              ELSE ret'.key \notin DOMAIN tbl)
        => /\ ret'.status = "fail"
           /\ UNCHANGED <<studentVars, teacherVars>>]_vars

\* an add of a roll number that is taken, with other data than the record holds
C2_Witness ==
    /\ ret.store = "student" /\ ret.op = "add" /\ ret.status = "fail"
    /\ ret.pre # None
    /\ ret.args.name # Some(ret.pre[1].name)
    /\ studentLog.kind = "list"

\* ---------------------------------------------------------------- C3
\* the tag log_action is given by the operation
TagOf(r) == IF r.store = "teacher" /\ r.op = "edit" THEN "edit_password" ELSE r.op

\* the last entry of the last call's log carries the call's tag and the record
\* after the call (before it, for remove)
LastEntryMatches(r) ==
    IF r.store = "student"
    THEN /\ Len(studentLog.entries) > 0
         /\ Last(studentLog.entries).action = TagOf(r)
         /\ Last(studentLog.entries).student =
                IF r.op = "remove" THEN r.pre
                ELSE IF r.key \in DOMAIN students
                     THEN Some(Student_to_dict(students[r.key])) ELSE None
    ELSE /\ Len(teacherLog.entries) > 0
         /\ Last(teacherLog.entries).action = TagOf(r)
         /\ Last(teacherLog.entries).teacher =
                IF r.op = "remove" THEN r.pre
                ELSE IF r.key \in DOMAIN teachers
                     THEN Some(Teacher_to_dict(teachers[r.key])) ELSE None

\* C3 as stated: after any successful add, remove or edit the last log entry has
\* the operation's tag and the record's state after it (before it, for remove).
C3_LastEntryOfEverySuccess ==
    (ret.op \in Mutating /\ ret.status = "ok") => LastEntryMatches(ret)

\* C3 amended: the same, except after a teacher edit that does not change the
\* password, which appends nothing (the last entry is then an older one).
C3_LastEntryUnlessNoChange ==
    (ret.op \in Mutating /\ ret.status = "ok" /\ ~NoPasswordChange(ret))
        => LastEntryMatches(ret)

\* a teacher's password was changed: the last entry is the edit_password one
C3_Witness ==
    /\ ret.store = "teacher" /\ ret.op = "edit" /\ ret.status = "ok"
    /\ ~NoPasswordChange(ret)
    /\ Len(teacherLog.entries) = 2
    /\ Last(teacherLog.entries).action = "edit_password"

\* ---------------------------------------------------------------- C4
\* the table a load of the file would read
TableOnDisk(file) == IF file.kind = "ok" THEN file.data ELSE <<>>

SameKeysAndFields(disk, dicts) ==
    /\ DOMAIN disk = DOMAIN dicts
    /\ \A k \in DOMAIN dicts : disk[k] = dicts[k]

\* C4: after every mutating call that returns, the table file holds exactly the
\* keys of the in-memory table with field-for-field equal records, and a call
\* that reported success has written the file.
C4_FileMatchesTable ==
    (ret.op \in Mutating /\ ret.status \in {"ok", "fail"})
        => /\ SameKeysAndFields(TableOnDisk(studentFile),
                    [k \in DOMAIN students |-> Student_to_dict(students[k])])
           /\ SameKeysAndFields(TableOnDisk(teacherFile),
                    [k \in DOMAIN teachers |-> Teacher_to_dict(teachers[k])])
           /\ ret.status = "ok"
                => IF ret.store = "student" THEN studentFile.kind = "ok"
                   ELSE teacherFile.kind = "ok"

\* a teacher was removed: the file holds the empty table
C4_Witness ==
    /\ ret.store = "teacher" /\ ret.op = "remove" /\ ret.status = "ok"
    /\ teacherFile.kind = "ok" /\ DOMAIN teacherFile.data = {}

\* ---------------------------------------------------------------- C5
NoTwoWithSameKey(listing, field) ==
    \A i, j \in DOMAIN listing : i # j => listing[i][field] # listing[j][field]

\* C5: the listing never holds two records with the same roll number (username),
\* it lists every record of the table, and an add whose key is present leaves
\* the record under that key as it was.
C5_OneRecordPerKey ==
    /\ [](/\ NoTwoWithSameKey(get_all_students(None), "roll_number")
          /\ Len(get_all_students(None)) = Cardinality(DOMAIN students)
          /\ NoTwoWithSameKey(get_all_teachers, "username")
          /\ Len(get_all_teachers) = Cardinality(DOMAIN teachers))
    /\ [][(CallStep /\ ret'.op = "add")
            => /\ ret'.store = "student" /\ ret'.key \in DOMAIN students
                    => students' = students
               /\ ret'.store = "teacher" /\ ret'.key \in DOMAIN teachers
                    => teachers' = teachers]_vars

\* two students are listed and an add of a taken roll number was refused
C5_Witness ==
    /\ Len(get_all_students(None)) = 2
    /\ ret.store = "student" /\ ret.op = "add" /\ ret.status = "fail"

\* ---------------------------------------------------------------- C6
\* C6: whatever a step does, each log before it is a prefix of the log after it,
\* entry for entry.
C6_LogAppendOnly ==
    [][/\ IsPrefix(studentLog.entries, studentLog'.entries)
       /\ IsPrefix(teacherLog.entries, teacherLog'.entries)]_vars

\* the student the first entry shows was edited since: the entry still shows the
\* record as it was added
C6_Witness ==
    /\ ret.store = "student" /\ ret.op = "edit" /\ ret.status = "ok"
    /\ Len(studentLog.entries) = 2
    /\ studentLog.entries[1].action = "add"
    /\ studentLog.entries[1].student = ret.pre
    /\ studentLog.entries[1].student # Some(Student_to_dict(students[ret.key]))

\* ---------------------------------------------------------------- C7
\* C7 as stated: whatever the log file holds, a mutation that passes the key
\* check reports success and the log then ends with its entry.
C7_AppendNeverBlocked ==
    (ret.op \in Mutating /\ ret.status # "fail" /\ ~NoPasswordChange(ret))
        => ret.status = "ok" /\ LastEntryMatches(ret)

\* ---------------------------------------------------------------- C8
\* C8 as stated: an edit of a present student leaves every field whose argument
\* is None or blank at its value, and every other record as it was.
C8_UnsuppliedFieldsKept ==
    [][(CallStep /\ ret'.store = "student" /\ ret'.op = "edit"
        /\ ret'.key \in DOMAIN students)
        => /\ DOMAIN students' = DOMAIN students
           /\ \A k \in DOMAIN students \ {ret'.key} : students'[k] = students[k]
           /\ LET old == students[ret'.key]
                  new == students'[ret'.key]
                  a == ret'.args
              IN /\ ~TruthyStr(a.name) => new.name = old.name
                 /\ (a.age = None) => new.age = old.age
                 /\ ~TruthyStr(a.class) => new.student_class = old.student_class
                 /\ ~TruthyStr(a.teacher_username)
                        => new.teacher_username = old.teacher_username
                 /\ new.roll_number = old.roll_number]_vars

\* ---------------------------------------------------------------- C9
\* the fields of the edited record whose value the last call changed
ChangedFields(r) ==
    {f \in StudentFields : r.pre[1][f] # Student_to_dict(students[r.key])[f]}

\* the fields the last call supplied with a value that is not blank
SuppliedFields(a) ==
    {f \in StudentFields :
        CASE f = "name" -> a.name # None /\ a.name[1] # ""
          [] f = "age" -> a.age # None /\ a.age[1] # 0
          [] f = "class" -> a.class # None /\ a.class[1] # ""
          [] f = "teacher_username" -> a.teacher_username # None}

\* the value an argument carries (teacher_username is kept as an option)
ArgValue(a, f) == IF f = "teacher_username" THEN a[f] ELSE a[f][1]

SuccessfulStudentEdit(r) == r.store = "student" /\ r.op = "edit" /\ r.status = "ok"

C10_SamePasswordNoChange ==
    [][(CallStep /\ ret'.store = "teacher" /\ ret'.op = "edit"
        /\ ret'.key \in DOMAIN teachers
        /\ ret'.args.password = Some(teachers[ret'.key].password))
        => /\ teachers' = teachers
           /\ teacherLog' = teacherLog
           /\ ret'.status = "ok"]_vars

\* the stored password was resubmitted a second after it was set
C10_Witness ==
    /\ ret.store = "teacher" /\ ret.op = "edit" /\ ret.status = "ok"
    /\ ret.args.password = Some(ret.pre[1].password)
    /\ ret.key \in DOMAIN teachers
    /\ teachers[ret.key].last_password_change < clock
    /\ Len(teacherLog.entries) = 1

\* ---------------------------------------------------------------- C11
\* C11: save() followed by a fresh store on the same file gives a table with the
\* same keys and field-for-field equal records, in both stores.
C11_SaveLoadRoundTrip ==
    [][(CallStep /\ ret'.op = "reopen")
        => /\ ret'.status = "ok"
           /\ DOMAIN students' = DOMAIN students
           /\ \A k \in DOMAIN students : students'[k] = students[k]
           /\ DOMAIN teachers' = DOMAIN teachers
           /\ \A k \in DOMAIN teachers : teachers'[k] = teachers[k]]_vars

\* a student with a teacher went through the file and came back with it
C11_Witness ==
    /\ ret.store = "student" /\ ret.op = "reopen" /\ ret.status = "ok"
    /\ \E k \in DOMAIN students : students[k].teacher_username = Some("t1")
    /\ studentFile.kind = "ok"

\* ---------------------------------------------------------------- C12
FiveFields == {"name", "age", "class", "roll_number", "teacher_username"}

\* C12 as stated: every record in the student table file, whichever front end
\* wrote it, has the five fields, and a table the command-line program loaded
\* and saved again keeps each record's teacher_username.
C12_FiveFieldsFromBothFrontEnds ==
    /\ studentFile.kind = "ok"
        => \A roll \in DOMAIN studentFile.data :
                DOMAIN studentFile.data[roll] = FiveFields
    /\ (ret.store = "cli" /\ ret.op = "exit" /\ studentFile.kind = "ok")
        => \A roll \in DOMAIN ret.result[1] \cap DOMAIN studentFile.data :
                /\ "teacher_username" \in DOMAIN studentFile.data[roll]
                /\ studentFile.data[roll].teacher_username
                        = ret.result[1][roll].teacher_username

\* ---------------------------------------------------------------- C13
\* C13 as stated: after load() of any parseable file and any later add, remove
\* and edit, every key of a table equals its record's roll_number (username),
\* and no step changes the roll_number of a record that stays in the table.
C13_KeyedByIdentifyingField ==
    /\ [](/\ \A k \in DOMAIN students : students[k].roll_number = k
          /\ \A k \in DOMAIN teachers : teachers[k].username = k)
    /\ [][\A k \in DOMAIN students \cap DOMAIN students' :
                students'[k].roll_number = students[k].roll_number]_vars

\* ---------------------------------------------------------------- C14
StudentFileUnusable(file) ==
    \/ file.kind \in {"missing", "corrupt", "nonobject"}
    \/ \E k \in DOMAIN file.data :
            \E f \in {"name", "age", "class", "roll_number"} : f \notin DOMAIN file.data[k]

TeacherFileUnusable(file) ==
    \/ file.kind \in {"missing", "corrupt", "nonobject"}
    \/ \E k \in DOMAIN file.data :
            \E f \in {"username", "password"} : f \notin DOMAIN file.data[k]

\* C14: load() never raises, and on a file that is missing, unparseable, no
\* mapping, or holds a record lacking a required field, it leaves the table empty.
C14_LoadNeverFails ==
    ret.op = "load"
        => /\ ret.status = "ok"
           /\ (ret.store = "student" /\ StudentFileUnusable(studentFile))
                => students = <<>>
           /\ (ret.store = "teacher" /\ TeacherFileUnusable(teacherFile))
                => teachers = <<>>

\* a store constructed again on a parseable file whose record lacks a field
C14_Witness ==
    /\ steps > 0
    /\ ret.op = "load" /\ ret.store = "student" /\ ret.status = "ok"
    /\ studentFile = OkFile("101", AliceDictShort)
    /\ students = <<>>

\* ---------------------------------------------------------------- C15
\* C15 as stated: add(r) with a key absent from the store succeeds, and get(k)
\* right after it returns a record equal to r in all five fields.
C15_AddThenGet ==
    [][(CallStep /\ ret'.store = "student" /\ ret'.op = "add"
            /\ ret'.key \notin DOMAIN students)
        => /\ ret'.status = "ok"
           /\ LET got == get_student(ret.key)'
                  a == ret'.args
              IN /\ got # None
                 /\ got[1].name = a.name[1]
                 /\ got[1].age = a.age[1]
                 /\ got[1].student_class = a.class[1]
                 /\ got[1].roll_number = ret'.key
                 /\ got[1].teacher_username = a.teacher_username]_vars

\* ---------------------------------------------------------------- C16
SameIgnoringCase(x, y) ==
    \/ x = y
    \/ {x, y} \subseteq {"Alice", "ALICE", "alice"}
    \/ {x, y} \subseteq {"Bob", "BOB", "bob"}

\* the positions of the entries a filter asks for
Wanted(entries, fb, fv) ==
    {i \in 1..Len(entries) :
        /\ entries[i].student # None
        /\ \/ fb = "name" /\ SameIgnoringCase(entries[i].student[1].name, fv)
           \/ fb = "roll_number" /\ entries[i].student[1].roll_number = fv}

\* the j-th least member of a set of positions
NthOf(positions, j) ==
    CHOOSE i \in positions : Cardinality({m \in positions : m <= i}) = j

\* C16: the log query returns the entries in log order; with a filter and a
\* value, exactly the entries with a snapshot whose name (ignoring case) or roll
\* number equals the value, and never an entry without a snapshot.
C16_LogQuery ==
    [][(CallStep /\ ret'.store = "student" /\ ret'.op = "view_logs"
            /\ ret'.status = "ok" /\ studentLog.kind # "nonlist")
        => LET got == ret'.result[1]
               a == ret'.args
               entries == studentLog.entries
           IN IF a.filter_by # None /\ a.filter_value # None
              THEN LET w == Wanted(entries, a.filter_by[1], a.filter_value[1])
                   IN /\ Len(got) = Cardinality(w)
                      /\ \A j \in 1..Len(got) : got[j] = entries[NthOf(w, j)]
                      /\ \A j \in 1..Len(got) : got[j].student # None
              ELSE got = entries]_vars

\* a name filter in another case picks one entry out of a longer log that
\* also holds an entry without a snapshot
C16_Witness ==
    /\ ret.store = "student" /\ ret.op = "view_logs" /\ ret.status = "ok"
    /\ ret.args.filter_by = Some("name") /\ ret.args.filter_value = Some("ALICE")
    /\ Len(ret.result[1]) = 1
    /\ ret.result[1][1].student[1].name = "Alice"
    /\ Len(studentLog.entries) > 1
    /\ \E i \in 1..Len(studentLog.entries) : studentLog.entries[i].student = None

\* ---------------------------------------------------------------- C17
\* a listing holds each record of the table under the given keys exactly once
EachOnce(listing, tbl, keys) ==
    /\ Len(listing) = Cardinality(keys)
    /\ \A k \in keys : \E i \in 1..Len(listing) : listing[i] = tbl[k]

Ascending(listing, field) ==
    \A i, j \in 1..Len(listing) :
        i < j => Rank(listing[i][field]) < Rank(listing[j][field])

\* C17: list() returns every record exactly once in ascending key order; the
\* student listing for a teacher username returns exactly that teacher's
\* students, in the same order.  (An empty string is no username: the index
\* route passes None for it.)
C17_Listing ==
    [][(CallStep /\ ret'.op = "list")
        => LET got == ret'.result[1]
               tu == ret'.args.teacher_username
           IN IF ret'.store = "student"
              THEN /\ Ascending(got, "roll_number")
                   /\ EachOnce(got, students,
                        IF tu \in {None, Some("")} THEN DOMAIN students
                        ELSE {k \in DOMAIN students : students[k].teacher_username = tu})
              ELSE /\ Ascending(got, "username")
                   /\ EachOnce(got, teachers, DOMAIN teachers)]_vars

\* the listing for teacher t1 leaves out a student of the store
C17_Witness ==
    /\ ret.store = "student" /\ ret.op = "list"
    /\ ret.args.teacher_username = Some("t1")
    /\ Len(ret.result[1]) = 1
    /\ Cardinality(DOMAIN students) = 2

\* ---------------------------------------------------------------- C18
\* the table file / the table holds what a log entry says was done
FileReflects(file, e) ==
    /\ file.kind = "ok"
    /\ IF e.action = "add"
       THEN /\ e.student[1].roll_number \in DOMAIN file.data
            /\ file.data[e.student[1].roll_number] = e.student[1]
       ELSE e.student[1].roll_number \notin DOMAIN file.data

TableReflects(tbl, e) ==
    IF e.action = "add"
    THEN /\ e.student[1].roll_number \in DOMAIN tbl
         /\ Student_to_dict(tbl[e.student[1].roll_number]) = e.student[1]
    ELSE e.student[1].roll_number \notin DOMAIN tbl

\* C18: within a call, first the table changes, then the table file is
\* rewritten, then the entry is appended, then success is returned: the step
\* that rewrites the file writes the table as it already is, the step that puts
\* a mutation's entry last in the log finds the table file reflecting the
\* mutation, and the step that returns success finds the entry last in the log.
C18_OrderOfEffects ==
    [][/\ (studentFile' # studentFile /\ studentFile'.kind = "ok")
            => /\ students' = students
               /\ studentFile' = save_students(students)
       /\ (studentLog' # studentLog /\ studentLog'.kind = "list")
            => /\ studentFile' = studentFile
               /\ FileReflects(studentFile, Last(studentLog'.entries))
               /\ TableReflects(students, Last(studentLog'.entries))
       /\ (ret' # ret /\ ret'.status = "ok")
            => /\ studentLog' = studentLog
               /\ studentLog.kind = "list" /\ studentLog.entries # <<>>
               /\ Last(studentLog.entries).action = ret'.op
               /\ Last(studentLog.entries).student[1].roll_number = ret'.key
               /\ FileReflects(studentFile, Last(studentLog.entries))]_vars

\* a remove has returned success after an add did
C18_Witness ==
    /\ ret.op = "remove" /\ ret.status = "ok"
    /\ \A r \in Requests : reqs[r].pc = "done" /\ reqs[r].status = "ok"
    /\ Len(studentLog.entries) >= 2
    /\ studentFile = [kind |-> "ok", data |-> <<>>]

\* ---------------------------------------------------------------- C19
\* C19: with the calls interleaved between statements, the log is rewritten from
\* what the writing call read earlier: each write leaves exactly the entries
\* that call read plus its own, so an entry written in between is lost even
\* though both calls return success.
C19_WriteIsReadPlusOwn ==
    [][(studentLog' # studentLog /\ studentLog'.kind = "list")
        => \E r \in Requests :
            /\ reqs[r].pc = "log_write"
            /\ studentLog'.entries = Append(reqs[r].logs, reqs[r].entry[1])]_vars

\* the lost update: both calls returned success, the log holds one of the entries
C19_Witness ==
    /\ \A r \in Requests : reqs[r].pc = "done" /\ reqs[r].status = "ok"
    /\ studentLog.kind = "list"
    /\ Cardinality({r \in Requests :
            \E i \in 1..Len(studentLog.entries) :
                studentLog.entries[i] = reqs[r].entry[1]}) = 1
    /\ reqs[1].entry # reqs[2].entry

\* ---------------------------------------------------------------- C20
\* C20 as stated: when save() fails, the table file afterwards holds the
\* complete old content or the complete new content.
C20_FailedSaveLeavesOldOrNew ==
    [][\A r \in Requests :
        (reqs[r].pc \in {"save_open", "save_write"} /\ reqs'[r].pc = "done")
            => \/ studentFile' = reqs[r].old
               \/ studentFile' = [kind |-> "ok", data |-> reqs[r].data]]_vars

\* ---------------------------------------------------------------- C21
\* C21 as stated: an edit of a present student sets every supplied field: a
\* non-blank name, a non-blank class and an age that is an integer >= 0, zero
\* included, are what get(key) returns for the field after the edit.
C21_SuppliedFieldsAreSet ==
    [][(CallStep /\ ret'.store = "student" /\ ret'.op = "edit"
            /\ ret'.key \in DOMAIN students)
        => LET got == get_student(ret.key)'
               a == ret'.args
           IN /\ got # None
              /\ TruthyStr(a.name) => got[1].name = a.name[1]
              /\ TruthyStr(a.class) => got[1].student_class = a.class[1]
              /\ (a.age # None /\ a.age[1] >= 0) => got[1].age = a.age[1]]_vars

\* ---------------------------------------------------------------- C22
\* C22 as stated: a teacher edit with a non-empty password that differs from the
\* stored one sets the password, sets last_password_change to the time of the
\* edit, and appends exactly one entry tagged edit_password whose details hold
\* the new password and the new last_password_change and whose snapshot shows both.
C22_PasswordEdit ==
    [][(CallStep /\ ret'.store = "teacher" /\ ret'.op = "edit"
            /\ ret'.key \in DOMAIN teachers
            /\ TruthyStr(ret'.args.password)
            /\ ret'.args.password[1] # teachers[ret'.key].password)
        => LET k == ret'.key
               pw == ret'.args.password[1]
           IN /\ k \in DOMAIN teachers'
              /\ teachers'[k].password = pw
              /\ teachers'[k].last_password_change = clock
              /\ teacherLog'.kind = "list"
              /\ Len(teacherLog'.entries) = Len(teacherLog.entries) + 1
              /\ IsPrefix(teacherLog.entries, teacherLog'.entries)
              /\ LET e == Last(teacherLog'.entries)
                 IN /\ e.action = "edit_password"
                    /\ e.details = Some([password |-> pw,
                                         last_password_change |-> clock])
                    /\ e.teacher # None
                    /\ e.teacher[1].password = pw
                    /\ e.teacher[1].last_password_change = clock]_vars

\* ---------------------------------------------------------------- C23
NoRemoveRequested == \A r \in Requests : reqs[r].op # "remove"

SuccessfulAdds(k) ==
    {r \in Requests : /\ reqs[r].pc = "done" /\ reqs[r].op = "add"
                      /\ reqs[r].key = k /\ reqs[r].status = "ok"}

C24_TeacherReferencesResolve ==
    \A k \in DOMAIN students :
        \/ students[k].teacher_username = None
        \/ students[k].teacher_username[1] \in DOMAIN teachers

\* C24 amended: the two stores are independent.  A call on the Teacher Store
\* leaves the student table and its file as they are, a call on the Student
\* Store leaves the teacher table and its file as they are, and add stores the
\* teacher_username it is given whether or not such a teacher exists; so a
\* student can point at a username that is not, or no longer, a teacher's.
C24_StoresIndependent ==
    [][CallStep
        => /\ ret'.store = "teacher"
                => students' = students /\ studentFile' = studentFile
           /\ ret'.store = "student"
                => teachers' = teachers /\ teacherFile' = teacherFile
           /\ (ret'.store = "student" /\ ret'.op = "add"
                    /\ ret'.key \notin DOMAIN students)
                => /\ ret'.key \in DOMAIN students'
                   /\ students'[ret'.key].teacher_username
                        = ret'.args.teacher_username]_vars

\* teacher t1 was removed while a student points at t1
C24_Witness ==
    /\ ret.store = "teacher" /\ ret.op = "remove" /\ ret.status = "ok"
    /\ ret.key = "t1" /\ "t1" \notin DOMAIN teachers
    /\ \E k \in DOMAIN students : students[k].teacher_username = Some("t1")

\* ---------------------------------------------------------------- C25
\* C25 as stated: reading a record changes neither table nor table file; the
\* web store's get() appends no log entry; the command-line display of one
\* student appends exactly one view entry with that student's snapshot when
\* the roll number is present, and nothing when it is absent.
C25_ReadsOnlyLogTheView ==
    [][CallStep
        => /\ (ret'.store = "student" /\ ret'.op = "get")
                => /\ students' = students
                   /\ studentFile' = studentFile
                   /\ studentLog' = studentLog
           /\ (ret'.store = "cli" /\ ret'.op = "display")
                => /\ studentFile' = studentFile
                   /\ cli'.running => cli'.students = cli.students
                   /\ IF ret'.key \in DOMAIN cli.students
                      THEN /\ studentLog'.kind = "list"
                           /\ Len(studentLog'.entries) = Len(studentLog.entries) + 1
                           /\ IsPrefix(studentLog.entries, studentLog'.entries)
                           /\ Last(studentLog'.entries).action = "view"
                           /\ Last(studentLog'.entries).student
                                = Some(CliStudent_to_dict(cli.students[ret'.key]))
                      ELSE studentLog' = studentLog]_vars

====
